---------------------------- MODULE Spec2Model ----------------------------
(***************************************************************************)
(* Campaign pacing dashboard (src/app.py): calcular_metricas, the pacing   *)
(* engine, calcular_metricas_programatica, the margin engine, and the      *)
(* alert broadcast store announced by the comment at app.py:11.            *)
(*                                                                         *)
(* Numbers.  Python floats are modelled as exact rationals [n, d] in       *)
(* lowest terms with d > 0; every comparison is the exact comparison.      *)
(* Dates are day numbers.  A DataFrame is a sequence of records plus, for  *)
(* the campaign table, the set of columns it has (`colunas`).              *)
(* Strings are kept in ASCII: "Nao" is the code's "Não", "Media" its       *)
(* "Média".                                                                *)
(***************************************************************************)
EXTENDS Integers, Sequences, FiniteSets, TLC

\* ------------------------------------------------------------- bounds
MaxDia == 3
DiaInicial == 1
MaxTicks == 1
MaxCampanhas == 2
MaxLinhas == 1
MaxFatos == 2
MaxSessoes == 2
MaxAppends == 3

\* --------------------------------------------------------- rationals
Abs(x) == IF x < 0 THEN -x ELSE x

RECURSIVE GCD(_, _)
GCD(a, b) == IF b = 0 THEN a ELSE GCD(b, a % b)

\* The rational n/d (d # 0) in lowest terms with a positive denominator.
Q(n, d) ==
    LET g == GCD(Abs(n), Abs(d))
        s == IF d < 0 THEN -1 ELSE 1
    IN  [n |-> (s * n) \div g, d |-> (s * d) \div g]

QInt(k) == [n |-> k, d |-> 1]
QLt(a, b) == a.n * b.d < b.n * a.d
QGt(a, b) == QLt(b, a)
QGe(a, b) == ~QLt(a, b)
QMulInt(a, k) == Q(a.n * k, a.d)
\* a / b for rationals, b # 0.
QDiv(a, b) == Q(a.n * b.d, a.d * b.n)
QSub(a, b) == Q(a.n * b.d - b.n * a.d, a.d * b.d)

\* f"{x:.2f}" of a non-negative rational: the number of hundredths, rounded
\* half to even (Python rounds the binary value; the two agree except on
\* decimal ties that a double cannot hold exactly).
Fmt2(x) ==
    LET num == x.n * 100
        q == num \div x.d
        r == num % x.d
    IN  IF 2 * r < x.d THEN q
        ELSE IF 2 * r > x.d THEN q + 1
        ELSE IF q % 2 = 0 THEN q ELSE q + 1

\* ------------------------------------------------------- cell values
\* A cell of the campaign table: a value the conversion accepts (ok) or one
\* on which pd.to_datetime / float raises.
Valor(v) == [ok |-> TRUE, v |-> v]
Invalido == [ok |-> FALSE, v |-> 0]

Dias == 0 .. MaxDia

Todas == {"insertion_order", "modelo", "volume_contratado",
          "inicio_campanha", "fim_campanha", "budget"}

Campanha(io, modelo, vol, ini, fim, budget) ==
    [insertion_order |-> io, modelo |-> modelo, volume_contratado |-> vol,
     inicio_campanha |-> ini, fim_campanha |-> fim, budget |-> budget]

\* The row c of a table that has only the columns cols.
Colunas(c, cols) == [x \in cols |-> c[x]]

Fato(io, dia, imp, clk, cv, rev) ==
    [Insertion_Order |-> io, Date |-> dia, Impressions |-> imp,
     Clicks |-> clk, Complete_Views |-> cv, Revenue |-> rev]

\* All sequences over S of length at most n.
SeqAte(S, n) == UNION {[1 .. k -> S] : k \in 0 .. n}

RECURSIVE Soma(_, _)
\* dados[coluna].sum()
Soma(dados, coluna) ==
    IF dados = <<>> THEN 0
    ELSE Head(dados)[coluna] + Soma(Tail(dados), coluna)

\* df_daily[df_daily['Insertion Order'] == campanha['insertion_order']]
dados_campanha(df, io) == SelectSeq(df, LAMBDA f : f.Insertion_Order = io)

\* dados_campanha.sort_values('Date').iloc[-1][metrica], or 0 on an empty
\* selection: a row of the latest Date; which one among several rows of
\* that Date is left to the sort, so every one of them is possible.
ultima_metrica(dados, metrica) ==
    IF dados = <<>> THEN {0}
    ELSE {dados[k][metrica] : k \in
            {j \in 1 .. Len(dados) :
                \A m \in 1 .. Len(dados) : dados[m].Date <= dados[j].Date}}

\* ------------------------------------------- calcular_metricas, one row
\* if fim < data_atual: continue
Encerrada_ate_hoje(fim, data_atual) == fim <= data_atual
Encerrada(fim, data_atual) == fim < data_atual

dias_totais(inicio, fim) == (fim - inicio) + 1
dias_decorridos_sem_hoje(inicio, data_atual) == data_atual - inicio
dias_decorridos(inicio, data_atual) == (data_atual - inicio) + 1
dias_restantes(fim, data_atual) == fim - data_atual

\* pace_acumulado
pace_acumulado(volume_acumulado, volume_esperado) ==
    IF QGt(volume_esperado, QInt(0))
    THEN QMulInt(QDiv(QInt(volume_acumulado), volume_esperado), 100)
    ELSE QInt(0)

Status_limites_fora(pace) ==
    IF ~QGt(pace, QInt(90)) THEN "Under"
    ELSE IF ~QLt(pace, QInt(110)) THEN "Over"
    ELSE "On Track"

Status(pace) ==
    IF QLt(pace, QInt(90)) THEN "Under"
    ELSE IF QGt(pace, QInt(110)) THEN "Over"
    ELSE "On Track"

\* The metric channel that counts toward the contracted volume.
metrica(modelo) == IF modelo = "CPM" THEN "Impressions" ELSE "Complete_Views"

ctr(soma_clicks, volume_acumulado) ==
    IF volume_acumulado > 0
    THEN QMulInt(Q(soma_clicks, volume_acumulado), 100)
    ELSE QInt(0)

taxa_complete_views(volume_acumulado, soma_impressions) ==
    IF soma_impressions > 0
    THEN QMulInt(Q(volume_acumulado, soma_impressions), 100)
    ELSE QInt(0)

\* Every model other than CPM taken as CPV.
Underperforming_nao_cpm(modelo, dados, volume_acumulado) ==
    IF modelo = "CPM" THEN
        LET c == ctr(Soma(dados, "Clicks"), volume_acumulado)
        IN  [flag |-> IF QLt(c, Q(20, 100)) THEN "Sim" ELSE "Nao",
             valor |-> [rotulo |-> "CTR", centesimos |-> Fmt2(c)]]
    ELSE
        LET t == taxa_complete_views(volume_acumulado, Soma(dados, "Impressions"))
        IN  [flag |-> IF QLt(t, QInt(50)) THEN "Sim" ELSE "Nao",
             valor |-> [rotulo |-> "Complete Views", centesimos |-> Fmt2(t)]]

\* [flag, value] of the underperformance branch.
Underperforming(modelo, dados, volume_acumulado) ==
    IF modelo = "CPM" THEN
        LET c == ctr(Soma(dados, "Clicks"), volume_acumulado)
        IN  [flag |-> IF QLt(c, Q(20, 100)) THEN "Sim" ELSE "Nao",
             valor |-> [rotulo |-> "CTR", centesimos |-> Fmt2(c)]]
    ELSE IF modelo = "CPV" THEN
        LET t == taxa_complete_views(volume_acumulado, Soma(dados, "Impressions"))
        IN  [flag |-> IF QLt(t, QInt(50)) THEN "Sim" ELSE "Nao",
             valor |-> [rotulo |-> "Complete Views", centesimos |-> Fmt2(t)]]
    ELSE [flag |-> "Nao", valor |-> [rotulo |-> "N/A", centesimos |-> 0]]

meta_necessaria_diaria(volume, volume_acumulado, restantes) ==
    IF restantes > 0 THEN Q(volume - volume_acumulado, restantes) ELSE QInt(0)

\* The try block of one iteration (app.py:77-157), evaluated in the order of
\* the code.  The result is "continue" (ended campaign), "except" (an
\* exception reached the handler) or "row" with the row to append, its
\* "Ultima Entrega" still to be chosen by the caller.  campanha is a row of
\* the table: a function on the table's columns, so campanha['x'] raises
\* KeyError exactly when x is not in its domain.
corpo(campanha, df, data_atual) ==
    IF "inicio_campanha" \notin DOMAIN campanha THEN [tipo |-> "except", erro |-> "KeyError"]
    ELSE IF ~campanha.inicio_campanha.ok THEN [tipo |-> "except", erro |-> "ValueError"]
    ELSE IF "fim_campanha" \notin DOMAIN campanha THEN [tipo |-> "except", erro |-> "KeyError"]
    ELSE IF ~campanha.fim_campanha.ok THEN [tipo |-> "except", erro |-> "ValueError"]
    ELSE
    LET inicio == campanha.inicio_campanha.v
        fim == campanha.fim_campanha.v
    IN
    IF Encerrada(fim, data_atual) THEN [tipo |-> "continue", erro |-> ""]
    ELSE IF "volume_contratado" \notin DOMAIN campanha THEN [tipo |-> "except", erro |-> "KeyError"]
    ELSE IF ~campanha.volume_contratado.ok THEN [tipo |-> "except", erro |-> "ValueError"]
    ELSE IF dias_totais(inicio, fim) = 0 THEN [tipo |-> "except", erro |-> "ZeroDivisionError"]
    ELSE IF "insertion_order" \notin DOMAIN campanha THEN [tipo |-> "except", erro |-> "KeyError"]
    ELSE IF "modelo" \notin DOMAIN campanha THEN [tipo |-> "except", erro |-> "KeyError"]
    ELSE
    LET volume == campanha.volume_contratado.v
        meta_diaria == Q(volume, dias_totais(inicio, fim))
        dados == dados_campanha(df, campanha.insertion_order)
        volume_acumulado == Soma(dados, metrica(campanha.modelo))
        volume_esperado == QMulInt(meta_diaria, dias_decorridos(inicio, data_atual))
        pace == pace_acumulado(volume_acumulado, volume_esperado)
        under == Underperforming(campanha.modelo, dados, volume_acumulado)
        restantes == dias_restantes(fim, data_atual)
    IN  [tipo |-> "row", erro |-> "",
         dados |-> dados,
         linha |->
           [Campanha |-> campanha.insertion_order,
            Modelo |-> campanha.modelo,
            Volume_Contratado |-> volume,
            Meta_Diaria |-> meta_diaria,
            Volume_Acumulado |-> volume_acumulado,
            Volume_Esperado |-> volume_esperado,
            Ultima_Entrega |-> 0,
            Pace |-> pace,
            Status |-> Status(pace),
            Dias_Restantes |-> restantes,
            Inicio_Campanha |-> inicio,
            Fim_Campanha |-> fim,
            Underperforming |-> under.flag,
            Valor_Underperforming |-> under.valor,
            Meta_Necessaria_Diaria |->
                meta_necessaria_diaria(volume, volume_acumulado, restantes)]]

\* ------------------------------------------------------------- state
VARIABLES
    df_campanhas,   \* the campaign table (rows in feed order)
    colunas,        \* the columns df_campanhas has
    df_daily,       \* the daily delivery facts
    relogio,        \* the wall clock's date, what datetime.now().date() returns
    ticks,          \* midnights passed since the call began
    i,              \* rows of df_campanhas the loop has consumed
    resultados,     \* the list the function appends to
    origem,         \* history: origem[k] is the input row resultados[k] came from
    datas,          \* history: datas[k] is the data_atual read for input row k
    erros,          \* the st.error diagnostics, in order
    pc,             \* "loop", "returned" (the DataFrame is handed back) or "raised"
    store,          \* alert store: the persisted JSON array
    sess,           \* alert store: per session, where its append stands
    log,            \* history: messages appended since the last clear, as completed
    sobreposto,     \* history: an operation began while another append was in flight
    limpo,          \* history: clear() has run
    appends         \* history: appends begun

vars == <<df_campanhas, colunas, df_daily, relogio, ticks, i, resultados,
          origem, datas, erros, pc, store, sess, log, sobreposto, limpo, appends>>

engine == <<df_campanhas, colunas, df_daily, relogio, ticks, i, resultados,
            origem, datas, erros, pc>>
alertas == <<store, sess, log, sobreposto, limpo, appends>>

Sessoes == 1 .. MaxSessoes

InitAlertas ==
    /\ store = <<>>
    /\ sess = [s \in Sessoes |-> [pc |-> "idle", lido |-> <<>>, msg |-> ""]]
    /\ log = <<>>
    /\ sobreposto = FALSE
    /\ limpo = FALSE
    /\ appends = 0

InitLoop ==
    /\ ticks = 0
    /\ i = 0
    /\ resultados = <<>>
    /\ origem = <<>>
    /\ datas = <<>>
    /\ erros = <<>>
    /\ pc = "loop"

\* ------------------------------------------ calcular_metricas, the loop
\* except Exception as e: st.error(f"... {campanha['insertion_order']} ...")
\* The handler looks the identifier up again: TRUE when that lookup succeeds.
handler_ok(campanha) == "insertion_order" \in DOMAIN campanha

\* One iteration of `for _, campanha in df_campanhas.iterrows()`.
Iteracao ==
    /\ pc = "loop"
    /\ i < Len(df_campanhas)
    /\ LET campanha == df_campanhas[i + 1]
           data_atual == relogio
           r == corpo(campanha, df_daily, data_atual)
       IN  /\ i' = i + 1
           /\ datas' = Append(datas, data_atual)
           /\ IF r.tipo = "row" THEN
                 /\ \E u \in ultima_metrica(r.dados, metrica(campanha.modelo)) :
                        resultados' = Append(resultados,
                                             [r.linha EXCEPT !.Ultima_Entrega = u])
                 /\ origem' = Append(origem, i + 1)
                 /\ UNCHANGED <<erros, pc>>
              ELSE IF r.tipo = "continue" THEN
                 UNCHANGED <<resultados, origem, erros, pc>>
              ELSE IF handler_ok(campanha) THEN
                 /\ erros' = Append(erros, [campanha |-> campanha.insertion_order,
                                            erro |-> r.erro])
                 /\ UNCHANGED <<resultados, origem, pc>>
              ELSE
                 /\ pc' = "raised"
                 /\ UNCHANGED <<resultados, origem, erros>>
    /\ UNCHANGED <<df_campanhas, colunas, df_daily, relogio, ticks>>
    /\ UNCHANGED alertas

\* return pd.DataFrame(resultados)
Retorno ==
    /\ pc = "loop"
    /\ i = Len(df_campanhas)
    /\ pc' = "returned"
    /\ UNCHANGED <<df_campanhas, colunas, df_daily, relogio, ticks, i,
                   resultados, origem, datas, erros>>
    /\ UNCHANGED alertas

\* The wall clock passes midnight while the call is running.
MeiaNoite ==
    /\ pc = "loop"
    /\ ticks < MaxTicks
    /\ relogio' = relogio + 1
    /\ ticks' = ticks + 1
    /\ UNCHANGED <<df_campanhas, colunas, df_daily, i, resultados, origem,
                   datas, erros, pc>>
    /\ UNCHANGED alertas

NextMetricas == Iteracao \/ Retorno \/ MeiaNoite

\* Inputs for the date handling: every pair of dates, and rows on which a
\* conversion raises; the table with and without its identifier column.
SemBudget == [str |-> FALSE, s |-> <<>>]

CampanhasDatas ==
    {Campanha("A", "CPM", Valor(1200), Valor(a), Valor(b), SemBudget) :
        a \in Dias, b \in Dias}
    \cup {Campanha("A", "CPM", Invalido, Valor(0), Valor(MaxDia), SemBudget),
          Campanha("A", "CPM", Valor(1200), Valor(0), Invalido, SemBudget)}

FatosDatas == << Fato("A", 0, 100, 1, 40, 10), Fato("A", 1, 200, 0, 60, 20) >>

InitDatas ==
    /\ colunas \in {Todas, Todas \ {"insertion_order"}}
    /\ df_campanhas \in SeqAte({Colunas(c, colunas) : c \in CampanhasDatas},
                               MaxCampanhas)
    /\ df_daily = FatosDatas
    /\ relogio = DiaInicial
    /\ InitLoop
    /\ InitAlertas

SpecDatas == InitDatas /\ [][NextMetricas]_vars

\* ----------------------------------------------------- claims: dates
Indices(seq) == {seq[k] : k \in 1 .. Len(seq)}

\* Every field the pacing row needs is there and converts, and the campaign
\* does not end before it starts.
BemFormada(c) ==
    /\ {"insertion_order", "modelo", "volume_contratado",
        "inicio_campanha", "fim_campanha"} \subseteq DOMAIN c
    /\ c.inicio_campanha.ok /\ c.fim_campanha.ok /\ c.volume_contratado.ok
    /\ c.fim_campanha.v >= c.inicio_campanha.v

FimAntes(c, d) ==
    /\ "fim_campanha" \in DOMAIN c
    /\ c.fim_campanha.ok
    /\ c.fim_campanha.v < d

\* C1: of the rows consumed so far, one whose end date is strictly before the
\* date read for it has no row in the output, and a well-formed one whose
\* end date is that date or later has its row in the output (a campaign
\* ending today is still tracked).
C1_EncerradasForaAtivasDentro ==
    \A k \in 1 .. i :
        LET c == df_campanhas[k]
            d == datas[k]
        IN  /\ FimAntes(c, d) => k \notin Indices(origem)
            /\ (BemFormada(c) /\ c.fim_campanha.v >= d) =>
                  \E j \in 1 .. Len(resultados) :
                      /\ origem[j] = k
                      /\ resultados[j].Campanha = c.insertion_order
                      /\ resultados[j].Inicio_Campanha = c.inicio_campanha.v
                      /\ resultados[j].Fim_Campanha = c.fim_campanha.v

\* A call returned having skipped a campaign that ended the day before and
\* kept one that ends on the very date read for it.
C1_Witness ==
    /\ pc = "returned"
    /\ \E k \in 1 .. i : FimAntes(df_campanhas[k], datas[k])
                         /\ df_campanhas[k].fim_campanha.v = datas[k] - 1
    /\ \E j \in 1 .. Len(resultados) :
          /\ BemFormada(df_campanhas[origem[j]])
          /\ resultados[j].Fim_Campanha = datas[origem[j]]
          /\ resultados[j].Dias_Restantes = 0

\* C2: one bad row never aborts the computation: the call does not raise,
\* and when it returns every row of the table has been consumed.
C2_NuncaAborta ==
    /\ pc # "raised"
    /\ pc = "returned" => i = Len(df_campanhas)

\* C3: every emitted row has totalDays = (end - start) + 1 >= 1, and so a
\* non-negative daily target for a non-negative contracted volume.
C3_DiasTotaisPositivos ==
    \A j \in 1 .. Len(resultados) :
        LET r == resultados[j]
        IN  /\ dias_totais(r.Inicio_Campanha, r.Fim_Campanha) >= 1
            /\ r.Volume_Contratado >= 0 => QGe(r.Meta_Diaria, QInt(0))

\* C5: the elapsed-day count is clamped at 0, so the expected volume to date
\* of an emitted row (with at least one total day) is never negative for a
\* non-negative contracted volume.
C5_VolumeEsperadoNaoNegativo ==
    \A j \in 1 .. Len(resultados) :
        LET r == resultados[j]
        IN  (dias_totais(r.Inicio_Campanha, r.Fim_Campanha) >= 1
             /\ r.Volume_Contratado >= 0)
            => QGe(r.Volume_Esperado, QInt(0))

\* The as-of date a returned row was computed with: Dias Restantes is
\* (fim - data_atual).days.
DataDaLinha(r) == r.Fim_Campanha - r.Dias_Restantes

\* C10: all rows of a returned table were evaluated against one single
\* as-of date, whatever the wall clock did during the loop.
C10_UmaSoData ==
    pc = "returned" =>
        \A j, k \in 1 .. Len(resultados) :
            DataDaLinha(resultados[j]) = DataDaLinha(resultados[k])

\* ------------------------------------------------- inputs: delivery
\* In-flight campaigns of every model, and delivery facts whose sums fall on
\* both sides of each threshold of the pacing row.
CampanhasEntrega ==
    {Campanha("A", m, Valor(t[1]), Valor(t[2]), Valor(t[3]), SemBudget) :
        m \in {"CPM", "CPV", "CPC"},
        t \in {<<1000, DiaInicial, DiaInicial>>, <<2000, 0, MaxDia>>,
               <<0, 0, MaxDia>>}}

FatosEntrega ==
    {Fato("A", 0, 900, 1, 450, 10),
     Fato("A", 1, 200, 1, 100, 10),
     Fato("A", 1, 201, 2, 449, 10),
     Fato("A", 0, 899, 2, 450, 10),
     Fato("B", 1, 500, 9, 500, 10),
     Fato("A", 1, 1000, 1, 500, 10),
     Fato("A", 1, 1000, 3, 499, 10)}

\* The end-to-end scenario: 10000 impressions contracted over days 1..10,
\* 4500 delivered by day 5 (two facts on one day, and a fact of another
\* campaign).
InitCenario ==
    /\ colunas = Todas
    /\ df_campanhas = << Campanha("C1", "CPM", Valor(10000), Valor(1), Valor(10),
                                  SemBudget) >>
    /\ df_daily = << Fato("C1", 4, 2000, 20, 0, 10), Fato("C2", 4, 700, 1, 0, 10),
                     Fato("C1", 5, 1500, 10, 0, 10), Fato("C1", 5, 1000, 10, 0, 10) >>
    /\ relogio = 5

InitEntrega ==
    /\ \/ /\ colunas = Todas
          /\ df_campanhas \in SeqAte(CampanhasEntrega, MaxLinhas)
          /\ df_daily \in SeqAte(FatosEntrega, MaxFatos)
          /\ relogio = DiaInicial
       \/ InitCenario
    /\ InitLoop
    /\ InitAlertas

SpecEntrega == InitEntrega /\ [][NextMetricas]_vars

\* --------------------------------------------------- claims: delivery
RECURSIVE SomaRef(_, _, _, _)
\* The sum of column col over the first n facts of df that carry identifier io.
SomaRef(df, io, col, n) ==
    IF n = 0 THEN 0
    ELSE SomaRef(df, io, col, n - 1)
         + (IF df[n].Insertion_Order = io THEN df[n][col] ELSE 0)

Entregue(c, col) == SomaRef(df_daily, c.insertion_order, col, Len(df_daily))

\* x is the rational a / b (b # 0).
Igual(x, a, b) == x.n * b = a * x.d

\* C4: the status of every row is decided by its pace ratio alone: below 90
\* Under, above 110 Over, and from 90 to 110, both ends included, On Track.
C4_StatusParticao ==
    \A j \in 1 .. Len(resultados) :
        LET r == resultados[j]
            p == r.Pace
        IN  /\ r.Status \in {"Under", "Over", "On Track"}
            /\ (p.n < 90 * p.d) <=> (r.Status = "Under")
            /\ (p.n > 110 * p.d) <=> (r.Status = "Over")
            /\ (p.n >= 90 * p.d /\ p.n <= 110 * p.d) <=> (r.Status = "On Track")

\* A row whose pace is exactly 110 and whose status is On Track.
C4_Witness ==
    \E j \in 1 .. Len(resultados) :
        /\ resultados[j].Pace = QInt(110)
        /\ resultados[j].Status = "On Track"

\* The flag and value the CTR rule gives for facts of campaign c.
RegraCTR(c, r) ==
    LET imp == Entregue(c, "Impressions")
        clk == Entregue(c, "Clicks")
        v == r.Valor_Underperforming
    IN  /\ r.Volume_Acumulado = imp
        /\ (r.Underperforming = "Sim") <=> (imp <= 0 \/ clk * 500 < imp)
        /\ r.Underperforming \in {"Sim", "Nao"}
        /\ v.rotulo = "CTR"
        /\ IF imp > 0 THEN 2 * Abs(v.centesimos * imp - clk * 10000) <= imp
           ELSE v.centesimos = 0

\* The flag and value the completion-rate rule gives for facts of campaign c.
RegraCompleteViews(c, r) ==
    LET imp == Entregue(c, "Impressions")
        cv == Entregue(c, "Complete_Views")
        v == r.Valor_Underperforming
    IN  /\ r.Volume_Acumulado = cv
        /\ (r.Underperforming = "Sim") <=> (imp <= 0 \/ cv * 2 < imp)
        /\ r.Underperforming \in {"Sim", "Nao"}
        /\ v.rotulo = "Complete Views"
        /\ IF imp > 0 THEN 2 * Abs(v.centesimos * imp - cv * 10000) <= imp
           ELSE v.centesimos = 0

\* C6 as stated: every model other than CPM is flagged by the completion
\* rate (Yes exactly when below 50), CPM by the CTR (Yes exactly when below
\* 0.20), the value recorded with the flag.
C6_TodoNaoCPMPorCompleteViews ==
    \A j \in 1 .. Len(resultados) :
        LET r == resultados[j]
            c == df_campanhas[origem[j]]
        IN  IF r.Modelo = "CPM" THEN RegraCTR(c, r)
            ELSE RegraCompleteViews(c, r)

\* C6, amended: CPM is flagged by the CTR and CPV by the completion rate; a
\* model that is neither still counts completed views as delivered but is
\* never flagged, and records N/A as the value.
C6_CPVPorCompleteViewsOutrosNunca ==
    \A j \in 1 .. Len(resultados) :
        LET r == resultados[j]
            c == df_campanhas[origem[j]]
        IN  IF r.Modelo = "CPM" THEN RegraCTR(c, r)
            ELSE IF r.Modelo = "CPV" THEN RegraCompleteViews(c, r)
            ELSE /\ r.Volume_Acumulado = Entregue(c, "Complete_Views")
                 /\ r.Underperforming = "Nao"
                 /\ r.Valor_Underperforming.rotulo = "N/A"

\* A row of a model that is neither CPM nor CPV, with a completion rate
\* below 50, and not flagged.
C6_Witness ==
    \E j \in 1 .. Len(resultados) :
        LET r == resultados[j]
            c == df_campanhas[origem[j]]
        IN  /\ r.Modelo \notin {"CPM", "CPV"}
            /\ Entregue(c, "Impressions") > 0
            /\ Entregue(c, "Complete_Views") * 2 < Entregue(c, "Impressions")
            /\ r.Underperforming = "Nao"

\* C9: every in-flight, well-formed campaign (start <= as-of <= end) has its
\* row, and the row's figures are those of the reference computation:
\* dailyTarget = volume / totalDays, expectedToDate = dailyTarget *
\* elapsedDays, paceRatio = delivered / expectedToDate * 100 (0 when nothing
\* is expected), daysRemaining = end - asOf >= 0, requiredDailyRate =
\* (volume - delivered) / daysRemaining (0 on the last day), delivered
\* being the sum of the model's channel over the campaign's own facts.
C9_LinhaIgualReferencia ==
    \A k \in 1 .. i :
        LET c == df_campanhas[k]
            d == datas[k]
        IN  (BemFormada(c) /\ c.inicio_campanha.v <= d /\ d <= c.fim_campanha.v) =>
            \E j \in 1 .. Len(resultados) :
                LET r == resultados[j]
                    vol == c.volume_contratado.v
                    tot == (c.fim_campanha.v - c.inicio_campanha.v) + 1
                    dec == (d - c.inicio_campanha.v) + 1
                    rest == c.fim_campanha.v - d
                    ent == Entregue(c, IF c.modelo = "CPM" THEN "Impressions"
                                       ELSE "Complete_Views")
                IN  /\ origem[j] = k
                    /\ Igual(r.Meta_Diaria, vol, tot)
                    /\ Igual(r.Volume_Esperado, vol * dec, tot)
                    /\ r.Volume_Acumulado = ent
                    /\ IF vol * dec > 0 THEN Igual(r.Pace, ent * 100 * tot, vol * dec)
                       ELSE r.Pace.n = 0
                    /\ r.Dias_Restantes = rest /\ rest >= 0
                    /\ IF rest > 0 THEN Igual(r.Meta_Necessaria_Diaria, vol - ent, rest)
                       ELSE r.Meta_Necessaria_Diaria.n = 0

\* The end-to-end scenario came out as 1000, 5000, 90 (On Track), 5 and 1100.
C9_Witness ==
    /\ pc = "returned"
    /\ \E j \in 1 .. Len(resultados) :
        LET r == resultados[j]
        IN  /\ r.Volume_Contratado = 10000
            /\ r.Volume_Acumulado = 4500
            /\ r.Meta_Diaria = QInt(1000)
            /\ r.Volume_Esperado = QInt(5000)
            /\ r.Pace = QInt(90)
            /\ r.Status = "On Track"
            /\ r.Dias_Restantes = 5
            /\ r.Meta_Necessaria_Diaria = QInt(1100)

\* ------------------------------------- calcular_metricas_programatica
\* A budget cell is a string, held as its sequence of characters, or a value
\* that is no string (str = FALSE), on which .replace is an AttributeError.
Texto(chars) == [str |-> TRUE, s |-> chars]

RECURSIVE replace(_, _, _)
\* str.replace(old, new): every occurrence of old, left to right.
replace(s, old, new) ==
    IF Len(s) < Len(old) THEN s
    ELSE IF SubSeq(s, 1, Len(old)) = old
         THEN new \o replace(SubSeq(s, Len(old) + 1, Len(s)), old, new)
         ELSE <<Head(s)>> \o replace(Tail(s), old, new)

RECURSIVE lstrip(_)
lstrip(s) == IF s # <<>> /\ Head(s) = " " THEN lstrip(Tail(s)) ELSE s

RECURSIVE rstrip(_)
rstrip(s) ==
    IF s # <<>> /\ s[Len(s)] = " " THEN rstrip(SubSeq(s, 1, Len(s) - 1)) ELSE s

Digito ==
    [c \in {"0", "1", "2", "3", "4", "5", "6", "7", "8", "9"} |->
        CASE c = "0" -> 0 [] c = "1" -> 1 [] c = "2" -> 2 [] c = "3" -> 3
          [] c = "4" -> 4 [] c = "5" -> 5 [] c = "6" -> 6 [] c = "7" -> 7
          [] c = "8" -> 8 [] c = "9" -> 9]

RECURSIVE Inteiro(_)
\* The number a sequence of digits writes.
Inteiro(ds) ==
    IF ds = <<>> THEN 0
    ELSE Inteiro(SubSeq(ds, 1, Len(ds) - 1)) * 10 + Digito[ds[Len(ds)]]

RECURSIVE Pot10(_)
Pot10(k) == IF k = 0 THEN 1 ELSE 10 * Pot10(k - 1)

\* float(s) on the decimal notation: blanks around, an optional sign, digits
\* with at most one point among them and at least one digit.  Anything else
\* is a ValueError (ok = FALSE).  Exponents, inf, nan and digit-group
\* underscores do not occur in the budgets considered.
float(s) ==
    LET t == rstrip(lstrip(s))
        sinal == IF t # <<>> /\ Head(t) = "-" THEN -1 ELSE 1
        corpo_num == IF t # <<>> /\ Head(t) \in {"-", "+"} THEN Tail(t) ELSE t
        pontos == {k \in 1 .. Len(corpo_num) : corpo_num[k] = "."}
        digitos == SelectSeq(corpo_num, LAMBDA c : c # ".")
        casas == IF pontos = {} THEN 0
                 ELSE Len(corpo_num) - (CHOOSE k \in pontos : TRUE)
    IN  IF /\ Cardinality(pontos) <= 1
           /\ digitos # <<>>
           /\ \A k \in 1 .. Len(digitos) : digitos[k] \in DOMAIN Digito
        THEN [ok |-> TRUE, q |-> Q(sinal * Inteiro(digitos), Pot10(casas))]
        ELSE [ok |-> FALSE, q |-> QInt(0)]

\* campanha['budget'].replace('R$', '').replace('.', '').replace(',', '.')
normalizar(s) ==
    replace(replace(replace(s, <<"R", "$">>, <<>>), <<".">>, <<>>), <<",">>, <<".">>)

margem(investimento, investimento_entregue) ==
    IF QGt(investimento, QInt(0))
    THEN QMulInt(QDiv(QSub(investimento, QInt(investimento_entregue)), investimento), 100)
    ELSE QInt(0)

StatusMargem_acima(m) ==
    IF QGt(m, QInt(30)) THEN "Boa"
    ELSE IF QGt(m, QInt(20)) THEN "Media"
    ELSE "Ruim"

\* "Boa" if margem >= 30 else "Media" if margem >= 20 else "Ruim"
StatusMargem(m) ==
    IF QGe(m, QInt(30)) THEN "Boa"
    ELSE IF QGe(m, QInt(20)) THEN "Media"
    ELSE "Ruim"

\* The try block of one iteration (app.py:169-185).
corpo_programatica(campanha, df) ==
    IF "budget" \notin DOMAIN campanha THEN [tipo |-> "except", erro |-> "KeyError"]
    ELSE IF ~campanha.budget.str THEN [tipo |-> "except", erro |-> "AttributeError"]
    ELSE IF ~float(normalizar(campanha.budget.s)).ok
         THEN [tipo |-> "except", erro |-> "ValueError"]
    ELSE IF "insertion_order" \notin DOMAIN campanha
         THEN [tipo |-> "except", erro |-> "KeyError"]
    ELSE
    LET investimento == float(normalizar(campanha.budget.s)).q
        dados == dados_campanha(df, campanha.insertion_order)
        investimento_entregue == Soma(dados, "Revenue")
        m == margem(investimento, investimento_entregue)
    IN  [tipo |-> "row", erro |-> "",
         linha |-> [Campanha |-> campanha.insertion_order,
                    Investimento_Total |-> investimento,
                    Investimento_Entregue |-> investimento_entregue,
                    Margem |-> m,
                    Status |-> StatusMargem(m)]]

\* One iteration of the loop of calcular_metricas_programatica.
IteracaoProgramatica ==
    /\ pc = "loop"
    /\ i < Len(df_campanhas)
    /\ LET campanha == df_campanhas[i + 1]
           r == corpo_programatica(campanha, df_daily)
       IN  /\ i' = i + 1
           /\ IF r.tipo = "row" THEN
                 /\ resultados' = Append(resultados, r.linha)
                 /\ origem' = Append(origem, i + 1)
                 /\ UNCHANGED <<erros, pc>>
              ELSE IF handler_ok(campanha) THEN
                 /\ erros' = Append(erros, [campanha |-> campanha.insertion_order,
                                            erro |-> r.erro])
                 /\ UNCHANGED <<resultados, origem, pc>>
              ELSE
                 /\ pc' = "raised"
                 /\ UNCHANGED <<resultados, origem, erros>>
    /\ UNCHANGED <<df_campanhas, colunas, df_daily, relogio, ticks, datas>>
    /\ UNCHANGED alertas

NextProgramatica == IteracaoProgramatica \/ Retorno

Budgets ==
    {Texto(<<"R", "$", " ", "1", ".", "0", "0", "0", ",", "0", "0">>),
     Texto(<<"R", "$", " ", "1", ".", "2", "5", "0", ",", "5", "0">>),
     Texto(<<"R", "$", " ", "0", ",", "0", "0">>),
     Texto(<<"R", "$", " ", "-", "5", "0", "0", ",", "0", "0">>),
     Texto(<<"1", "0", "0", "0">>),
     Texto(<<"1", ",", "0", "0", "0", ".", "0", "0">>),
     Texto(<<"R", "$", " ", "m", "i", "l">>),
     SemBudget}

CampanhasMargem ==
    {Campanha("A", "CPM", Valor(1000), Valor(0), Valor(MaxDia), b) : b \in Budgets}

FatosMargem ==
    {Fato("A", 0, 10, 0, 0, 700), Fato("A", 1, 10, 0, 0, 1),
     Fato("A", 1, 10, 0, 0, 800), Fato("A", 0, 10, 0, 0, 100),
     Fato("B", 0, 10, 0, 0, 300)}

InitMargem ==
    /\ colunas \in {Todas, Todas \ {"insertion_order"}}
    /\ df_campanhas \in SeqAte({Colunas(c, colunas) : c \in CampanhasMargem},
                               MaxLinhas)
    /\ df_daily \in SeqAte(FatosMargem, MaxFatos)
    /\ relogio = DiaInicial
    /\ InitLoop
    /\ InitAlertas

SpecMargem == InitMargem /\ [][NextProgramatica]_vars

\* ----------------------------------------------------- claims: margin
\* C8: in every margin row, delivered is the sum of Revenue over the facts of
\* the campaign, margin is (budget - delivered) / budget * 100 for a budget
\* above 0 and 0 otherwise, and the status is Boa from 30 up, Media from 20
\* up to but not including 30, Ruim below 20.
C8_MargemEStatus ==
    \A j \in 1 .. Len(resultados) :
        LET r == resultados[j]
            c == df_campanhas[origem[j]]
            b == r.Investimento_Total
            e == Entregue(c, "Revenue")
            m == r.Margem
        IN  /\ r.Investimento_Entregue = e
            /\ IF b.n > 0 THEN Igual(m, (b.n - e * b.d) * 100, b.n)
               ELSE m.n = 0
            /\ (m.n >= 30 * m.d) <=> (r.Status = "Boa")
            /\ (m.n >= 20 * m.d /\ m.n < 30 * m.d) <=> (r.Status = "Media")
            /\ (m.n < 20 * m.d) <=> (r.Status = "Ruim")

\* A budget of "R$ 1.000,00" with 700 delivered: margin exactly 30, Boa.
C8_Witness ==
    \E j \in 1 .. Len(resultados) :
        /\ df_campanhas[origem[j]].budget =
              Texto(<<"R", "$", " ", "1", ".", "0", "0", "0", ",", "0", "0">>)
        /\ resultados[j].Investimento_Total = QInt(1000)
        /\ resultados[j].Investimento_Entregue = 700
        /\ resultados[j].Margem = QInt(30)
        /\ resultados[j].Status = "Boa"

\* ------------------------------------------------ AlertBroadcastStore
\* The store is one JSON array of strings shared by every session; a missing
\* file reads as the empty array.  append is a read of the whole array
\* followed by a write of the whole array, with nothing held in between.
Mensagens == {"a", "b"}

\* list(): the current alerts, in append order.
list == store

gravar_so_mensagem(lido, msg) == <<msg>>
\* What append writes back: what it read, with the message at the end.
gravar(lido, msg) == Append(lido, msg)

EmCurso(s) == \E t \in Sessoes \ {s} : sess[t].pc = "read"

\* append(message), first half: read the current contents.
AppendLer(s, m) ==
    /\ sess[s].pc = "idle"
    /\ appends < MaxAppends
    /\ sess' = [sess EXCEPT ![s] = [pc |-> "read", lido |-> list, msg |-> m]]
    /\ appends' = appends + 1
    /\ sobreposto' = (sobreposto \/ EmCurso(s))
    /\ UNCHANGED <<store, log, limpo>>
    /\ UNCHANGED engine

\* append(message), second half: write the full list back.
AppendEscrever(s) ==
    /\ sess[s].pc = "read"
    /\ store' = gravar(sess[s].lido, sess[s].msg)
    /\ log' = Append(log, sess[s].msg)
    /\ sess' = [sess EXCEPT ![s] = [pc |-> "idle", lido |-> <<>>, msg |-> ""]]
    /\ UNCHANGED <<sobreposto, limpo, appends>>
    /\ UNCHANGED engine

\* clear(): remove every entry.
Clear(s) ==
    /\ sess[s].pc = "idle"
    /\ store' = <<>>
    /\ log' = <<>>
    /\ limpo' = TRUE
    /\ sobreposto' = (sobreposto \/ EmCurso(s))
    /\ UNCHANGED <<sess, appends>>
    /\ UNCHANGED engine

NextAlertas ==
    \E s \in Sessoes :
        \/ \E m \in Mensagens : AppendLer(s, m)
        \/ AppendEscrever(s)
        \/ Clear(s)

\* No computation is running while the sessions use the store.
InitStore ==
    /\ colunas = Todas
    /\ df_campanhas = <<>>
    /\ df_daily = <<>>
    /\ relogio = DiaInicial
    /\ InitLoop
    /\ InitAlertas

SpecAlertas == InitStore /\ [][NextAlertas]_vars

\* ----------------------------------------------------- claims: alerts
Ociosas == \A s \in Sessoes : sess[s].pc = "idle"

\* C7 as stated: with no clear, once the appends of every session are done,
\* list() holds every appended message exactly once, in append order,
\* whatever the interleaving.
C7_AppendConcorrentePreserva ==
    (~limpo /\ Ociosas) => list = log

\* C7, amended: as long as no operation began while another session's append
\* was between its read and its write, list() holds the messages appended
\* since the last clear, each once and in order, and is empty after a clear.
C7_AppendSequencialPreserva ==
    ~sobreposto => list = log

\* append("a") then append("b") with no overlap gave ["a", "b"].
C7_Witness ==
    /\ ~sobreposto /\ ~limpo /\ Ociosas
    /\ list = <<"a", "b">>

=============================================================================
